---- MODULE Spec2Model ----
(***************************************************************************)
(* A model of tinygrad/spec.py: the UOp rule sets (buffer_spec,            *)
(* assign_spec, tensor_uop_spec, spec, sched_spec, shape_spec), the two    *)
(* helper predicates validate_index and verify_sink_dims, and the driver   *)
(* type_verify.                                                            *)
(*                                                                         *)
(* A UOp is a record  [op, dtype, src, arg, base, shape, vmin, vmax].      *)
(* A rule is evaluated to one of four results:                             *)
(*   "T" (the predicate returned True),  "F" (it returned False),          *)
(*   "N" (the pattern did not match, or the predicate returned None),      *)
(*   "A" (the predicate raised AssertionError).                            *)
(***************************************************************************)
EXTENDS Integers, Sequences, FiniteSets, TLC

VARIABLES uops, specs, IGNORE_OOB, i, spec_ret, outcome

vars == <<uops, specs, IGNORE_OOB, i, spec_ret, outcome>>

(***************************************************************************)
(* Bounds of the model.                                                    *)
(***************************************************************************)
MaxLen == 3
MaxDim == 3
MaxVal == 2
MaxSrc == 2

(***************************************************************************)
(* tinygrad.dtype: DType, PtrDType(DType), ImageDType(PtrDType).           *)
(***************************************************************************)
DT(b) == [k |-> "plain", base |-> b, count |-> 1, local |-> FALSE, size |-> -1]

Vec(d, n) == [d EXCEPT !.count = n]

Ptr(b, sz, loc) == [k |-> "ptr", base |-> b, count |-> 1, local |-> loc, size |-> sz]

Image(b, sz) == [k |-> "image", base |-> b, count |-> 1, local |-> FALSE, size |-> sz]

void == DT("void")

bool == DT("bool")

int32 == DT("int")

uint32 == DT("uint")

int64 == DT("long")

float32 == DT("float")

\* DType.base is the DType itself, PtrDType.base the pointee
DBase(d) == IF d.k = "plain" THEN d ELSE DT(d.base)

\* DType.scalar(): the one-lane dtype
Scalar(d) == [d EXCEPT !.count = 1]

\* isinstance(d, ImageDType)
IsImage(d) == d.k = "image"

\* isinstance(d, PtrDType): ImageDType is a subclass of PtrDType
IsPtr(d) == d.k \in {"ptr", "image"}

\* dtypes.is_int / dtypes.is_float: membership of the scalar in dtypes.ints / floats
is_int(d) == d.k = "plain" /\ d.base \in {"int", "uint", "long"}

is_float(d) == d.k = "plain" /\ d.base \in {"float"}

(***************************************************************************)
(* Arguments.  t is the Python type of the argument, e the types of the    *)
(* elements when it is a tuple, n the number it carries (prod of the axis  *)
(* counts of a CONTRACT/UNROLL argument, the size of a ShapeTracker),      *)
(* ast the root UOp of a Kernel's program.                                 *)
(***************************************************************************)
Arg(t) == [t |-> t, e |-> <<>>, n |-> 0, ast |-> <<>>]

Tup(e) == [t |-> "tuple", e |-> e, n |-> 0, ast |-> <<>>]

None == Arg("None")

\* isinstance(a, int): bool is a subclass of int
IsInt(a) == a.t \in {"int", "bool"}

IsStr(a) == a.t = "str"

IsBool(a) == a.t = "bool"

IsTuple(a) == a.t = "tuple"

(***************************************************************************)
(* UOps.  shape is <<-1>> when UOp.st is None.                             *)
(***************************************************************************)
NoShape == <<-1>>

U(op, dtype, src, arg) ==
  [op |-> op, dtype |-> dtype, src |-> src, arg |-> arg, base |-> op,
   shape |-> NoShape, vmin |-> 0, vmax |-> 0]

HasSt(x) == x.shape # NoShape

\* the Kernel argument: k.arg.ast
KernelArg(ast) == [t |-> "Kernel", e |-> <<>>, n |-> 0, ast |-> <<ast>>]

\* a ShapeTracker argument of the given size (ShapeTracker.size)
StArg(kind, views, sz) == [t |-> kind, e |-> views, n |-> sz, ast |-> <<>>]

RECURSIVE Prod(_)
Prod(s) == IF s = <<>> THEN 1 ELSE Head(s) * Prod(Tail(s))

RECURSIVE toposort(_)
\* UOp.toposort: the node and everything it depends on
toposort(u) == {u} \cup UNION {toposort(u.src[k]) : k \in 1..Len(u.src)}

(***************************************************************************)
(* tinygrad.ops: Ops and GroupOp.                                          *)
(***************************************************************************)
GroupOp_Unary == {"EXP2", "LOG2", "SIN", "SQRT", "RECIP", "NEG"}

GroupOp_Binary == {"ADD", "MUL", "IDIV", "MAX", "MOD", "CMPLT", "CMPNE", "XOR", "SHL",
                   "SHR", "OR", "AND", "THREEFRY", "SUB", "FDIV", "POW"}

GroupOp_Ternary == {"WHERE", "MULACC"}

GroupOp_ALU == GroupOp_Unary \cup GroupOp_Binary \cup GroupOp_Ternary

GroupOp_Movement == {"RESHAPE", "EXPAND", "PERMUTE", "PAD", "SHRINK", "FLIP"}

GroupOp_All ==
  GroupOp_ALU \cup GroupOp_Movement \cup
  {"UNIQUE", "DEVICE", "BUFFER", "BUFFER_VIEW", "KERNEL", "ASSIGN", "VIEW", "BIND",
   "DEFINE_VAR", "CONST", "VCONST", "DETACH", "CONTIGUOUS", "CONTIGUOUS_BACKWARD", "FUSE",
   "COPY", "DEFINE_GLOBAL", "DEFINE_LOCAL", "DEFINE_ACC", "RANGE", "SPECIAL", "VALID",
   "LOAD", "STORE", "INDEX", "CAST", "BITCAST", "IF", "BARRIER", "ENDRANGE", "ENDIF",
   "WMMA", "CONTRACT", "UNROLL", "REDUCE_AXIS", "GEP", "VECTORIZE", "SINK", "NOOP",
   "CUSTOM", "CUSTOMI"}

(***************************************************************************)
(* tinygrad.ops: UPat matching and PatternMatcher.rewrite.                 *)
(***************************************************************************)
\* UPat(dtype=S): the dtype, or its scalar, is one of S
DtIn(u, S) == u.dtype \in S \/ Scalar(u.dtype) \in S

\* UPat(src=UPat(S)): every source, however many, has an op of S
SrcAll(u, S) == \A k \in 1..Len(u.src) : u.src[k].op \in S

\* the result of a predicate returning a bool
B(b) == IF b THEN "T" ELSE "F"

\* helpers.all_same
all_same(items) == \A k \in 1..Len(items) : items[k] = items[1]

RECURSIVE rewrite(_)
\* PatternMatcher.rewrite: the rules in order, the first result that is not None
rewrite(rules) ==
  IF rules = <<>> THEN "N"
  ELSE IF Head(rules) # "N" THEN Head(rules)
  ELSE rewrite(Tail(rules))

(***************************************************************************)
(* buffer_spec                                                             *)
(***************************************************************************)
\* isinstance(d, (DType, ImageDType)): every dtype is a DType
IsDType(d) == d.k \in {"plain", "ptr", "image"}

\* lambda device: isinstance(device.arg, str)
device_ok(device) == IsStr(device.arg)

\* a buffer_ok that takes a size given as a string too
buffer_ok_str(buf) == (IsInt(buf.arg) \/ IsStr(buf.arg)) /\ IsDType(buf.dtype)

\* lambda buf: isinstance(buf.arg, int) and isinstance(buf.dtype, (DType, ImageDType))
buffer_ok(buf) == IsInt(buf.arg) /\ IsDType(buf.dtype)

\* a buffer_view_ok that forgets the length of the tuple
buffer_view_ok_anylen(buf_view) ==
  /\ IsTuple(buf_view.arg)
  /\ \A k \in 1..Len(buf_view.arg.e) : buf_view.arg.e[k] \in {"int", "bool", "UOp"}

\* lambda buf_view: a tuple of length 2 of ints or UOps
buffer_view_ok(buf_view) ==
  /\ IsTuple(buf_view.arg)
  /\ Len(buf_view.arg.e) = 2
  /\ \A k \in 1..Len(buf_view.arg.e) : buf_view.arg.e[k] \in {"int", "bool", "UOp"}

buffer_spec(u) == <<
  IF u.op = "UNIQUE" /\ DtIn(u, {void}) /\ Len(u.src) = 0 THEN "T" ELSE "N",
  IF u.op = "DEVICE" /\ DtIn(u, {void}) /\ Len(u.src) = 0 THEN B(device_ok(u)) ELSE "N",
  IF u.op = "BUFFER" /\ Len(u.src) = 2 /\ u.src[1].op = "DEVICE" /\ u.src[2].op = "UNIQUE"
    THEN B(buffer_ok(u)) ELSE "N",
  IF u.op = "BUFFER_VIEW" /\ Len(u.src) = 1 /\ u.src[1].op = "BUFFER"
    THEN B(buffer_view_ok(u)) ELSE "N" >>

(***************************************************************************)
(* validate_kernel and assign_spec                                         *)
(***************************************************************************)
\* a validate_kernel that returns False where the code asserts
validate_kernel_soft(k) ==
  LET ast == k.arg.ast[1] IN
  IF ast.op \notin {"COPY", "BUFFER_VIEW", "SINK"} THEN "F"
  ELSE IF ast.op = "SINK" /\ ~(\A j \in 1..Len(ast.src) : ast.src[j].op = "STORE") THEN "F"
  ELSE "T"

validate_kernel(k) ==
  LET ast == k.arg.ast[1] IN
  IF ast.op \notin {"COPY", "BUFFER_VIEW", "SINK"} THEN "A"
  ELSE IF ast.op = "SINK" /\ ~(\A j \in 1..Len(ast.src) : ast.src[j].op = "STORE") THEN "A"
  ELSE "T"

assign_spec(u) == <<
  IF u.op = "KERNEL" /\ SrcAll(u, {"BUFFER", "BUFFER_VIEW", "ASSIGN"})
    THEN validate_kernel(u) ELSE "N",
  IF u.op = "ASSIGN"
    THEN B(u.src[1].base \in {"BUFFER", "BUFFER_VIEW"}
           /\ (Len(u.src) = 2 \/ \A k \in 3..Len(u.src) : u.src[k].op = "ASSIGN"))
    ELSE "N" >>

(***************************************************************************)
(* tensor_uop_spec                                                         *)
(***************************************************************************)
\* the rules tensor_uop_spec adds
tensor_rules(u) == <<
  IF u.op \in GroupOp_Movement /\ Len(u.src) = 1
    THEN LET x == u.src[1] IN
         B((IsTuple(u.arg) /\ u.dtype = x.dtype)
           \/ ((IsImage(u.dtype) \/ IsImage(x.dtype)) /\ DBase(x.dtype) = DBase(u.dtype)
               /\ x.base = "BUFFER"))
    ELSE "N",
  IF u.op = "VIEW" /\ Len(u.src) = 1
     /\ u.src[1].op \in GroupOp_All \ {"BUFFER", "BUFFER_VIEW", "ASSIGN", "CONST", "DEVICE"}
    THEN "F" ELSE "N",
  IF u.op = "BIND" /\ DtIn(u, {int32}) /\ Len(u.src) = 2 /\ u.src[1].op = "DEFINE_VAR"
     /\ u.src[2].op \in {"CONST", "VCONST"} /\ DtIn(u.src[2], {int32}) /\ u.arg = None
    THEN "T" ELSE "N",
  IF u.op = "CONST" /\ Len(u.src) = 1 /\ u.src[1].op = "VIEW"
     /\ Len(u.src[1].src) = 1 /\ u.src[1].src[1].op = "DEVICE"
    THEN LET views == u.src[1].arg.e IN
         B(views[1] \notin {"masked", "masked_strided"} /\ Len(views) = 1
           /\ views[1] \notin {"strided", "masked_strided"})
    ELSE "N",
  IF u.op \in {"DETACH", "CONTIGUOUS", "CONTIGUOUS_BACKWARD", "FUSE"} /\ Len(u.src) = 1
     /\ u.arg = None
    THEN B(u.dtype = u.src[1].dtype) ELSE "N",
  IF u.op = "COPY" /\ Len(u.src) = 2 /\ u.src[1].op = "DEVICE"
    THEN B(IsBool(u.arg) /\ u.dtype = u.src[2].dtype) ELSE "N" >>

tensor_uop_spec(u) == buffer_spec(u) \o assign_spec(u) \o tensor_rules(u)

(***************************************************************************)
(* validate_index                                                          *)
(***************************************************************************)
\* a validate_index whose upper bound is off by one (vmax > sz)
validate_index_off_by_one(idx, mask) ==
  IF IGNORE_OOB THEN TRUE
  ELSE IF mask = <<>> /\ ~IsImage(idx.dtype)
    THEN IF \E x \in toposort(idx) :
               \/ x.op \in {"DEFINE_VAR", "BITCAST"}
               \/ x.op = "SPECIAL" /\ \E k \in 2..Len(x.arg.e) : x.arg.e[k] \notin {"int", "bool"}
           THEN TRUE
           ELSE LET vmin == idx.src[2].vmin
                    vmax == idx.src[2].vmax
                    sz == idx.src[1].dtype.size
                IN  IF sz # -1 /\ (vmin < 0 \/ vmax > sz) THEN FALSE ELSE TRUE
    ELSE TRUE

\* mask is <<>> for None, <<m>> for the mask UOp
validate_index(idx, mask) ==
  IF IGNORE_OOB THEN TRUE
  ELSE IF mask = <<>> /\ ~IsImage(idx.dtype)
    THEN IF \E x \in toposort(idx) :
               \/ x.op \in {"DEFINE_VAR", "BITCAST"}
               \/ x.op = "SPECIAL" /\ \E k \in 2..Len(x.arg.e) : x.arg.e[k] \notin {"int", "bool"}
           THEN TRUE
           ELSE LET vmin == idx.src[2].vmin
                    vmax == idx.src[2].vmax
                    sz == idx.src[1].dtype.size
                IN  IF sz # -1 /\ (vmin < 0 \/ vmax >= sz) THEN FALSE ELSE TRUE
    ELSE TRUE

(***************************************************************************)
(* spec: the matcher for the final rendered UOps                           *)
(***************************************************************************)
DEFINES == {"DEFINE_GLOBAL", "DEFINE_LOCAL"}

BUFIDX == {"INDEX", "CAST"}

\* type(dtypes.as_const(x.arg, x.dtype))
as_const_type(arg, dtype) ==
  IF IsTuple(arg) THEN "tuple"
  ELSE IF is_int(Scalar(dtype)) THEN "int"
  ELSE IF is_float(Scalar(dtype)) THEN "float"
  ELSE "bool"

\* lambda w,x,y: w.dtype == x.dtype == y.dtype
where_ok(w, x, y) == w.dtype = x.dtype /\ x.dtype = y.dtype

\* an IDIV/MOD rule that never rejects
idiv_mod_rule_none(x) == "N"

\* lambda x: None if dtypes.is_int(x.dtype) else False
idiv_mod_rule(x) == IF is_int(Scalar(x.dtype)) THEN "N" ELSE "F"

\* lambda x: all(x.dtype.base == y.dtype.base for y in x.src)
alu_ok(x) == \A k \in 1..Len(x.src) : DBase(x.dtype) = DBase(x.src[k].dtype)

spec(u) == <<
  IF u.op = "DEFINE_GLOBAL" THEN B(IsPtr(u.dtype) /\ ~u.dtype.local) ELSE "N",
  IF u.op = "DEFINE_LOCAL" THEN B(IsPtr(u.dtype) /\ u.dtype.local) ELSE "N",
  IF u.op = "DEFINE_ACC" /\ Len(u.src) >= 1
    THEN B((\A k \in 2..Len(u.src) : u.src[k].op = "RANGE") /\ u.src[1].dtype = u.dtype)
    ELSE "N",
  IF u.op = "DEFINE_VAR"
    THEN B(u.arg.e[2] \in {"int", "bool"} /\ u.arg.e[3] \in {"int", "bool"}) ELSE "N",
  IF u.op = "RANGE" /\ Len(u.src) = 2
    THEN B(u.dtype = u.src[1].dtype /\ u.src[1].dtype = u.src[2].dtype /\ IsInt(u.arg))
    ELSE "N",
  IF u.op = "SPECIAL" /\ Len(u.src) = 0 THEN "T" ELSE "N",
  IF u.op = "VIEW" /\ DtIn(u, {void}) /\ Len(u.src) = 0 THEN "T" ELSE "N",
  IF u.op = "VIEW" /\ Len(u.src) = 1
    THEN B(u.src[1].op # "STORE" /\ DBase(u.dtype) = DBase(u.src[1].dtype)) ELSE "N",
  IF u.op = "VALID" /\ DtIn(u, {bool}) /\ Len(u.src) = 1 /\ u.src[1].op = "VIEW"
    THEN "T" ELSE "N",
  IF u.op = "CONST" THEN B(u.arg.t = as_const_type(u.arg, u.dtype)) ELSE "N",
  \* early LOAD has a <buf, shapetracker, store?>
  IF u.op = "LOAD" /\ Len(u.src) = 2 /\ u.src[1].op \in DEFINES /\ u.src[2].op = "VIEW"
    THEN "T" ELSE "N",
  IF u.op = "LOAD" /\ Len(u.src) = 3 /\ u.src[1].op \in DEFINES /\ u.src[2].op = "VIEW"
     /\ u.src[3].op = "STORE"
    THEN "T" ELSE "N",
  \* early STORE has a <buf, shapetracker, val>
  IF u.op = "STORE" /\ Len(u.src) = 3 /\ u.src[1].op \in DEFINES /\ u.src[2].op = "VIEW"
    THEN "T" ELSE "N",
  \* INDEX takes a <buf, alu, gate?>
  IF u.op = "INDEX" /\ Len(u.src) = 2 /\ u.src[1].op \in DEFINES
    THEN B(validate_index(u, <<>>)) ELSE "N",
  IF u.op = "INDEX" /\ Len(u.src) = 3 /\ u.src[1].op \in DEFINES /\ DtIn(u.src[3], {bool})
    THEN B(validate_index(u, <<u.src[3]>>)) ELSE "N",
  \* LOAD takes a <bufidx, alt?, barrier?>
  IF u.op = "LOAD" /\ Len(u.src) = 1 /\ u.src[1].op \in BUFIDX THEN "T" ELSE "N",
  IF u.op = "LOAD" /\ Len(u.src) = 2 /\ u.src[1].op \in BUFIDX
     /\ u.src[2].op \in {"IF", "BARRIER"}
    THEN "T" ELSE "N",
  IF u.op = "LOAD" /\ Len(u.src) = 2 /\ u.src[1].op \in BUFIDX
    THEN B(u.dtype = u.src[2].dtype) ELSE "N",
  \* STORE takes a <bufidx, val, gate?>
  IF u.op = "STORE" /\ DtIn(u, {void}) /\ Len(u.src) = 2 /\ u.src[1].op \in BUFIDX
    THEN "T" ELSE "N",
  IF u.op = "STORE" /\ DtIn(u, {void}) /\ Len(u.src) = 3 /\ u.src[1].op \in BUFIDX
     /\ DtIn(u.src[3], {bool})
    THEN "T" ELSE "N",
  IF u.op = "STORE" /\ DtIn(u, {void}) /\ Len(u.src) = 3 /\ u.src[1].op \in BUFIDX
     /\ u.src[3].op = "IF"
    THEN "T" ELSE "N",
  \* most ALUs have all matching dtypes, except CMPLT, CMPNE, and WHERE
  IF u.op = "WHERE" /\ Len(u.src) = 3 /\ DtIn(u.src[1], {bool})
    THEN B(where_ok(u, u.src[2], u.src[3])) ELSE "N",
  IF u.op \in {"CMPLT", "CMPNE"} /\ DtIn(u, {bool}) /\ Len(u.src) = 2
    THEN B(DBase(u.src[1].dtype) = DBase(u.src[2].dtype)) ELSE "N",
  \* and SHL/SHR, the shift distance can be an int
  IF u.op \in {"SHL", "SHR"} /\ Len(u.src) = 2
    THEN B(u.dtype = u.src[1].dtype /\ u.src[2].dtype \in {u.src[1].dtype, uint32})
    ELSE "N",
  IF u.op \in {"IDIV", "MOD"} THEN idiv_mod_rule(u) ELSE "N",
  IF u.op \in GroupOp_ALU
    THEN B(alu_ok(u)) ELSE "N",
  IF u.op = "ASSIGN" /\ Len(u.src) = 2 /\ u.src[1].op \in {"DEFINE_ACC", "DEFINE_GLOBAL"}
    THEN "T" ELSE "N",
  IF u.op = "ENDRANGE" /\ DtIn(u, {void}) /\ Len(u.src) = 1 /\ u.src[1].op = "RANGE"
    THEN "T" ELSE "N",
  \* WMMA has a <a, b, acc>
  IF u.op = "WMMA" /\ Len(u.src) = 3 THEN B(IsTuple(u.arg) /\ Len(u.arg.e) = 8) ELSE "N",
  IF u.op = "CONTRACT" THEN B(u.dtype.count = u.arg.n) ELSE "N",
  IF u.op = "UNROLL" THEN B(u.src[1].dtype.count = u.arg.n) ELSE "N",
  \* if has a <gate, barrier?>
  IF u.op = "IF" /\ DtIn(u, {void}) /\ Len(u.src) = 1 THEN "T" ELSE "N",
  IF u.op = "IF" /\ DtIn(u, {void}) /\ Len(u.src) = 2 /\ u.src[2].op = "BARRIER"
    THEN "T" ELSE "N",
  IF u.op = "ENDIF" /\ DtIn(u, {void}) /\ Len(u.src) = 1 /\ u.src[1].op = "IF"
    THEN "T" ELSE "N",
  IF u.op = "REDUCE_AXIS"
    THEN B(IsTuple(u.arg) /\ Len(u.arg.e) >= 2 /\ u.arg.e[1] \in {"Ops.ADD", "Ops.MUL", "Ops.MAX"})
    ELSE "N",
  IF u.op = "GEP" /\ Len(u.src) = 1 THEN B(u.dtype = Scalar(u.src[1].dtype)) ELSE "N",
  IF u.op = "VECTORIZE"
    THEN B(Len(u.src) > 1 /\ Len(u.src) = u.dtype.count
           /\ \A k \in 1..Len(u.src) : u.dtype = Vec(u.src[k].dtype, Len(u.src)))
    ELSE "N",
  IF u.op \in {"BITCAST", "CAST"} /\ Len(u.src) = 1 THEN B(u.arg = None) ELSE "N",
  IF u.op = "BARRIER" /\ DtIn(u, {void}) /\ SrcAll(u, {"STORE"}) THEN "T" ELSE "N",
  IF u.op = "BARRIER" /\ DtIn(u, {void}) THEN "T" ELSE "N",
  \* NOTE: for testing, we let sinks be anything
  IF u.op = "SINK" /\ DtIn(u, {void}) THEN "T" ELSE "N",
  IF u.op \in {"NOOP", "CUSTOMI", "CUSTOM"} THEN "T" ELSE "N",
  \* PTX LOAD/STORE
  IF u.op \in {"LOAD", "STORE"} /\ Len(u.src) >= 1 /\ DtIn(u.src[1], {int64})
    THEN "T" ELSE "N" >>

(***************************************************************************)
(* sched_spec: only buffers, assigns and kernels in the graph              *)
(***************************************************************************)
\* a catch-all that abstains instead of rejecting
sched_rules_none(u) == <<
  IF u.op \in GroupOp_All \ {"SINK"} THEN "N" ELSE "N" >>

\* the rules sched_spec adds
sched_rules(u) == <<
  IF u.op \in GroupOp_All \ {"SINK"} THEN "F" ELSE "N" >>

\* a sched_spec that puts its own catch-all rule first
sched_spec_own_first(u) == sched_rules(u) \o buffer_spec(u) \o assign_spec(u)

sched_spec(u) == buffer_spec(u) \o assign_spec(u) \o sched_rules(u)

(***************************************************************************)
(* verify_sink_dims and shape_spec                                         *)
(***************************************************************************)
Min(S) == CHOOSE m \in S : \A n \in S : m <= n

\* x.st_arg.size: the size of the ShapeTracker of the VIEW at src[1]
st_arg_size(x) == x.src[2].arg.n

\* a verify_sink_dims that takes any two sizes in a dimension
verify_sink_dims_any_two(sink) ==
  LET shapes == {x.shape : x \in {y \in toposort(sink) : y.op # "SINK" /\ HasSt(y)}}
      ndims == IF shapes = {} THEN 0 ELSE Min({Len(sh) : sh \in shapes})
      shape_dims == [d \in 1..ndims |-> {sh[d] : sh \in shapes}]
  IN  /\ all_same([k \in 1..Len(sink.src) |-> st_arg_size(sink.src[k])])
      /\ \A d \in 1..ndims : Cardinality(shape_dims[d]) <= 2

verify_sink_dims(sink) ==
  LET shapes == {x.shape : x \in {y \in toposort(sink) : y.op # "SINK" /\ HasSt(y)}}
      \* zip(*shapes) stops at the shortest shape
      ndims == IF shapes = {} THEN 0 ELSE Min({Len(sh) : sh \in shapes})
      \* sorted(dedup(dims)) of dimension d
      shape_dims == [d \in 1..ndims |-> {sh[d] : sh \in shapes}]
  IN  /\ all_same([k \in 1..Len(sink.src) |-> st_arg_size(sink.src[k])])
      /\ \A d \in 1..ndims :
           \/ Cardinality(shape_dims[d]) = 1
           \/ Cardinality(shape_dims[d]) = 2 /\ Min(shape_dims[d]) = 1

\* [x.shape for x in root.src if x.st is not None]
src_shapes(root) == SelectSeq([k \in 1..Len(root.src) |-> root.src[k].shape],
                              LAMBDA sh : sh # NoShape)

shape_spec(u) == <<
  \* shapes must have either 1 or n in each dimension
  IF u.op = "SINK" /\ SrcAll(u, {"STORE"}) THEN B(verify_sink_dims(u)) ELSE "N",
  \* all parent UOps must have the same shape
  IF u.op \in GroupOp_All \ {"SINK"} THEN B(all_same(src_shapes(u))) ELSE "N" >>

(***************************************************************************)
(* type_verify                                                             *)
(***************************************************************************)
ExtraSpecs == {"buffer_spec", "assign_spec", "tensor_uop_spec", "sched_spec", "shape_spec"}

\* the rules of the named PatternMatcher on u
rules_of(s, u) ==
  CASE s = "spec" -> spec(u)
    [] s = "buffer_spec" -> buffer_spec(u)
    [] s = "assign_spec" -> assign_spec(u)
    [] s = "tensor_uop_spec" -> tensor_uop_spec(u)
    [] s = "sched_spec" -> sched_spec(u)
    [] s = "shape_spec" -> shape_spec(u)

\* specs = [spec, *extra_specs]
active(extra) == {"spec"} \cup extra

\* spec_ret = [s.rewrite(u) for s in specs]
rets(u, extra) == [s \in active(extra) |-> rewrite(rules_of(s, u))]

\* a failure test that forgets the node no rule set knows
fails_any_false(ret) == \E s \in DOMAIN ret : ret[s] = "F"

\* any(ret is False ...) or all(ret is None ...)
fails(ret) == (\E s \in DOMAIN ret : ret[s] = "F") \/ (\A s \in DOMAIN ret : ret[s] = "N")

\* one iteration of the loop of type_verify, on uops[i]
Iterate ==
  /\ outcome = "running"
  /\ i <= Len(uops)
  /\ LET ret == rets(uops[i], specs) IN
     IF \E s \in DOMAIN ret : ret[s] = "A"
       \* validate_kernel raised inside the list comprehension
       THEN outcome' = "AssertionError" /\ i' = i /\ spec_ret' = spec_ret
       ELSE /\ spec_ret' = ret
            /\ IF fails(ret)
                 THEN outcome' = "RuntimeError" /\ i' = i
                 ELSE outcome' = "running" /\ i' = i + 1
  /\ UNCHANGED <<uops, specs, IGNORE_OOB>>

\* the loop of type_verify is over: it returns
Return ==
  /\ outcome = "running"
  /\ i > Len(uops)
  /\ outcome' = "returned"
  /\ UNCHANGED <<uops, specs, IGNORE_OOB, i, spec_ret>>

Next == Iterate \/ Return

(***************************************************************************)
(* The UOps the specifications draw their node lists from.                 *)
(***************************************************************************)
WithShape(x, sh) == [x EXCEPT !.shape = sh]

DEVICE == U("DEVICE", void, <<>>, Arg("str"))

UNIQUE == U("UNIQUE", void, <<>>, Arg("int"))

BUFFER(sh) == WithShape(U("BUFFER", float32, <<DEVICE, UNIQUE>>, Arg("int")), sh)

CONST(d) == U("CONST", d, <<>>, Arg(as_const_type(None, d)))

DEFINE_GLOBAL(sz) == U("DEFINE_GLOBAL", Ptr("float", sz, FALSE), <<>>, Arg("int"))

\* a VIEW of the given shape: its argument is the ShapeTracker, of size prod(shape)
VIEW(sh) == WithShape(U("VIEW", void, <<>>, StArg("ShapeTracker", <<"plain">>, Prod(sh))), sh)

\* an early STORE <buf, shapetracker, val>; a STORE has the st of its VIEW
STORE(sh, val) == WithShape(U("STORE", void, <<DEFINE_GLOBAL(-1), VIEW(sh), val>>, None), sh)

SINK(stores) == U("SINK", void, stores, None)

KERNEL(src, ast) == U("KERNEL", void, src, KernelArg(ast))

\* the node lists of Spec: one node of each kind of verdict
Catalogue ==
  { DEVICE,                                                   \* only buffer rules know it
    U("NOOP", void, <<>>, None),                              \* spec accepts
    U("ADD", int32, <<CONST(int32), CONST(float32)>>, None),  \* spec rejects
    U("BUFFER", float32, <<DEVICE, UNIQUE>>, Arg("str")),     \* buffer rules reject
    SINK(<<>>),                                               \* sched_spec abstains
    KERNEL(<<BUFFER(NoShape)>>, U("ADD", int32, <<>>, None)) }  \* validate_kernel asserts

Lists(S, n) == UNION {[1..m -> S] : m \in 0..n}

Start ==
  /\ i = 1
  /\ spec_ret = <<>>
  /\ outcome = "running"

Init ==
  /\ uops \in Lists(Catalogue, MaxLen)
  /\ specs \in SUBSET ExtraSpecs
  /\ IGNORE_OOB = FALSE
  /\ Start

Spec == Init /\ [][Next]_vars

(***************************************************************************)
(* Specifications over one-node lists, one per family of nodes.            *)
(***************************************************************************)
OneNode(Family, Choices) ==
  /\ uops \in {<<u>> : u \in Family}
  /\ specs \in Choices
  /\ Start

\* DEVICE, BUFFER, BUFFER_VIEW and UNIQUE nodes of every structure
BufferSrcs ==
  { <<>>, <<DEVICE, UNIQUE>>, <<UNIQUE, DEVICE>>, <<DEVICE>>, <<BUFFER(NoShape)>>,
    <<BUFFER(<<2>>), BUFFER(<<3>>)>>, <<DEVICE, UNIQUE, UNIQUE>>, <<CONST(int32)>> }

BufferArgs ==
  { None, Arg("int"), Arg("bool"), Arg("str"), Arg("float"), Tup(<<"int", "int">>),
    Tup(<<"int", "UOp">>), Tup(<<"int", "str">>), Tup(<<"int">>), Tup(<<"int", "int", "int">>) }

BufferNodes ==
  { U(op, d, src, arg) :
      op \in {"UNIQUE", "DEVICE", "BUFFER", "BUFFER_VIEW"},
      d \in {void, float32, Image("float", 4), Ptr("float", 4, FALSE)},
      src \in BufferSrcs, arg \in BufferArgs }

InitBuffer == OneNode(BufferNodes, SUBSET ExtraSpecs) /\ IGNORE_OOB = FALSE

SpecBuffer == InitBuffer /\ [][Next]_vars

\* KERNEL nodes
KernelSrcs ==
  { <<>>, <<BUFFER(NoShape)>>, <<BUFFER(NoShape), U("ASSIGN", float32, <<BUFFER(NoShape)>>, None)>>,
    <<U("BUFFER_VIEW", float32, <<BUFFER(NoShape)>>, Tup(<<"int", "int">>))>>,
    <<BUFFER(<<2>>), BUFFER(<<3>>)>>, <<BUFFER(NoShape), CONST(int32)>>,
    <<U("DEFINE_VAR", int32, <<>>, Tup(<<"str", "int", "int">>))>> }

KernelAsts ==
  { U("COPY", float32, <<DEVICE, BUFFER(NoShape)>>, Arg("bool")),
    U("BUFFER_VIEW", float32, <<BUFFER(NoShape)>>, Tup(<<"int", "int">>)),
    SINK(<<>>), SINK(<<STORE(<<2>>, CONST(float32))>>),
    SINK(<<STORE(<<2>>, CONST(float32)), U("NOOP", void, <<>>, None)>>),
    SINK(<<U("LOAD", float32, <<>>, None)>>),
    U("ADD", int32, <<>>, None), STORE(<<2>>, CONST(float32)), U("NOOP", void, <<>>, None) }

KernelNodes == { KERNEL(src, ast) : src \in KernelSrcs, ast \in KernelAsts }

InitKernel == OneNode(KernelNodes, SUBSET ExtraSpecs) /\ IGNORE_OOB = FALSE

SpecKernel == InitKernel /\ [][Next]_vars

\* WHERE nodes of three sources, IDIV and MOD nodes of up to MaxSrc sources
AluDtypes == {bool, int32, float32, Ptr("int", 4, FALSE)}

AluSrcs(n) == UNION {[1..m -> {CONST(d) : d \in AluDtypes}] : m \in 0..n}

AluNodes ==
  { U("WHERE", d, <<CONST(c), CONST(x), CONST(y)>>, None) : d, c, x, y \in AluDtypes }
  \cup { U(op, d, src, None) : op \in {"IDIV", "MOD"}, d \in AluDtypes, src \in AluSrcs(MaxSrc) }

InitAlu == OneNode(AluNodes, {{}}) /\ IGNORE_OOB = FALSE

SpecAlu == InitAlu /\ [][Next]_vars

\* INDEX nodes
Ranged(x, lo, hi) == [x EXCEPT !.vmin = lo, !.vmax = hi]

Offsets ==
  { CONST(int32),
    U("ADD", int32, <<U("DEFINE_VAR", int32, <<>>, Tup(<<"str", "int", "int">>)), CONST(int32)>>, None),
    U("BITCAST", int32, <<CONST(float32)>>, None),
    U("SPECIAL", int32, <<>>, Tup(<<"str", "int">>)),
    U("ADD", int32, <<U("SPECIAL", int32, <<>>, Tup(<<"str", "UOp">>)), CONST(int32)>>, None) }

IndexNodes ==
  { U("INDEX", d, <<DEFINE_GLOBAL(sz), Ranged(off, lo, hi)>> \o mask, None) :
      d \in {Ptr("float", 4, FALSE), Image("float", 4)},
      sz \in {-1} \cup 1..MaxVal,
      off \in Offsets,
      lo \in -1..MaxVal, hi \in -1..MaxVal,
      mask \in {<<>>, <<CONST(bool)>>, <<CONST(int32)>>} }

InitIndex ==
  /\ OneNode({u \in IndexNodes : u.src[2].vmin <= u.src[2].vmax}, {{}})
  /\ IGNORE_OOB \in BOOLEAN

SpecIndex == InitIndex /\ [][Next]_vars

\* SINK nodes over early STOREs; shapes of rank 1 and 2 with sizes 0..MaxDim
Shapes == UNION {[1..r -> 0..MaxDim] : r \in 1..2}

Shaped(sh) == WithShape(U("LOAD", float32, <<>>, None), sh)

SinkNodes ==
  {SINK(<<>>)}
  \cup { SINK(<<STORE(s1, Shaped(t1))>>) : s1, t1 \in Shapes }
  \cup { SINK(<<STORE(s1, Shaped(t1)), STORE(s2, CONST(float32))>>) : s1, t1, s2 \in Shapes }

InitSink == OneNode(SinkNodes, {{"shape_spec"}}) /\ IGNORE_OOB = FALSE

SpecSink == InitSink /\ [][Next]_vars

\* nodes of every operator, under sched_spec and every choice of the other sets
PlainOps ==
  GroupOp_All \ {"DEFINE_VAR", "CONST", "VCONST", "UNROLL", "CONTRACT", "KERNEL", "ASSIGN",
                 "INDEX", "SINK"}

PlainSrcs ==
  { <<>>, <<CONST(int32)>>, <<CONST(int32), CONST(int32)>>,
    <<DEFINE_GLOBAL(2), VIEW(<<2>>), CONST(float32)>> }

SchedNodes ==
  { U(op, d, src, None) : op \in PlainOps, d \in {void, int32}, src \in PlainSrcs }
  \cup { DEVICE, UNIQUE, BUFFER(NoShape), U("BUFFER", float32, <<DEVICE, UNIQUE>>, Arg("str")),
         U("BUFFER_VIEW", float32, <<BUFFER(NoShape)>>, Tup(<<"int", "int">>)),
         CONST(int32), CONST(float32), U("CONST", int32, <<>>, Arg("float")),
         U("DEFINE_VAR", int32, <<>>, Tup(<<"str", "int", "int">>)),
         U("UNROLL", int32, <<CONST(int32)>>, Tup(<<"axis">>)),
         U("CONTRACT", int32, <<CONST(int32)>>, Tup(<<"axis">>)),
         U("ASSIGN", float32, <<BUFFER(NoShape), CONST(float32)>>, None),
         U("ASSIGN", float32, <<DEFINE_GLOBAL(2), CONST(float32)>>, None),
         U("INDEX", Ptr("float", 2, FALSE), <<DEFINE_GLOBAL(2), CONST(int32)>>, None),
         SINK(<<>>), SINK(<<STORE(<<2>>, CONST(float32))>>),
         U("SINK", float32, <<>>, None) }
  \cup { KERNEL(<<BUFFER(NoShape)>>, ast) : ast \in KernelAsts }

InitSched ==
  /\ OneNode(SchedNodes, {S \cup {"sched_spec"} : S \in SUBSET (ExtraSpecs \ {"sched_spec"})})
  /\ IGNORE_OOB = FALSE

SpecSched == InitSched /\ [][Next]_vars

(***************************************************************************)
(* Properties.                                                             *)
(***************************************************************************)
\* type_verify has evaluated a node: cur is the last one it evaluated
Evaluated == outcome \in {"RuntimeError", "AssertionError"} \/ i > 1

cur == IF outcome \in {"RuntimeError", "AssertionError"} THEN uops[i] ELSE uops[i - 1]

\* the node passed: the loop went on to the next one
Passed == outcome \in {"running", "returned"} /\ i > 1

\* the verdict of an active rule set on node k of the list
Verdict(s, k) == rewrite(rules_of(s, uops[k]))

\* some active rule set rejects node k, or every active rule set abstains on it
Rejected(k) ==
  \/ \E s \in {"spec"} \cup specs : Verdict(s, k) = "F"
  \/ \A s \in {"spec"} \cup specs : Verdict(s, k) = "N"

\* C1: when no assertion fires, type_verify raises the verification-failed error at
\* index i exactly when i is the least index whose node some active rule set rejects
\* or every active rule set abstains on; it evaluates no node after i; and it returns
\* normally only when there is no such index.
C1_FirstFailure ==
  /\ outcome \in {"running", "returned"} => \A k \in 1..(i - 1) : ~Rejected(k)
  /\ outcome = "returned" => i = Len(uops) + 1
  /\ outcome = "RuntimeError" => Rejected(i) /\ \A k \in 1..(i - 1) : ~Rejected(k)
  /\ outcome = "RuntimeError" => ~ENABLED Iterate

\* C1 witness: the error is raised at the second of three nodes, on which spec and
\* the extra rule set both abstain
C1_Witness ==
  /\ outcome = "RuntimeError" /\ i = 2 /\ Len(uops) = 3
  /\ specs # {}
  /\ \A s \in {"spec"} \cup specs : Verdict(s, 2) = "N"

\* the first result in list order that is an accept or a reject, "N" when there is none
FirstDefinite(rules) ==
  IF \A k \in 1..Len(rules) : rules[k] = "N" THEN "N"
  ELSE rules[Min({k \in 1..Len(rules) : rules[k] # "N"})]

\* the rules of a set in the order the claim names
ListOrder(s, u) ==
  CASE s = "sched_spec" -> buffer_spec(u) \o assign_spec(u) \o sched_rules(u)
    [] s = "tensor_uop_spec" -> buffer_spec(u) \o assign_spec(u) \o tensor_rules(u)
    [] OTHER -> rules_of(s, u)

BadBufferArg(u) ==
  \/ u.op = "BUFFER" /\ u.arg.t \notin {"int", "bool"}
  \/ u.op = "BUFFER_VIEW" /\ ~(u.arg.t = "tuple" /\ Len(u.arg.e) = 2)

\* C3 as stated: such a node is rejected by type_verify under every choice of active
\* rule sets.
C3_Original == (Evaluated /\ BadBufferArg(cur)) => outcome = "RuntimeError"

\* C3 as amended: such a node is rejected by type_verify under every choice of active
\* rule sets that leaves shape_spec out.
C3_RejectedWithoutShapeSpec ==
  (Evaluated /\ BadBufferArg(cur) /\ "shape_spec" \notin specs) => outcome = "RuntimeError"

\* C3 witness: a BUFFER over (DEVICE, UNIQUE) with a string argument is rejected with
\* buffer_spec, assign_spec and tensor_uop_spec active
C3_Witness ==
  /\ outcome = "RuntimeError"
  /\ cur.op = "BUFFER" /\ cur.arg.t = "str"
  /\ Len(cur.src) = 2 /\ cur.src[1].op = "DEVICE" /\ cur.src[2].op = "UNIQUE"
  /\ specs = {"buffer_spec", "assign_spec", "tensor_uop_spec"}

\* a three-source WHERE
IsWhere3(u) == u.op = "WHERE" /\ Len(u.src) = 3

\* C4: under spec a three-source WHERE is accepted only if its condition is boolean
\* and both branches and the result share one dtype; a WHERE whose branches have
\* different dtypes is rejected.
C4_Where ==
  (Evaluated /\ IsWhere3(cur)) =>
    /\ spec_ret["spec"] = "T" =>
         /\ cur.src[1].dtype = bool
         /\ cur.dtype = cur.src[2].dtype /\ cur.dtype = cur.src[3].dtype
    /\ cur.src[2].dtype # cur.src[3].dtype => spec_ret["spec"] = "F"

\* validate_index is called on the INDEX: two sources, or three with a boolean mask
IndexChecked(u) ==
  /\ u.op = "INDEX"
  /\ Len(u.src) = 2 \/ (Len(u.src) = 3 /\ u.src[3].dtype = bool)

\* the dependency set of the offset cannot be bounded statically
Unbounded(off) ==
  \E x \in toposort(off) :
    \/ x.op = "DEFINE_VAR"
    \/ x.op = "BITCAST"
    \/ x.op = "SPECIAL" /\ \E k \in 2..Len(x.arg.e) : x.arg.e[k] # "int"

\* C5: validate_index rejects an INDEX exactly when IGNORE_OOB is not set, there is no
\* mask, the dtype is no image, the offset depends on no DEFINE_VAR, BITCAST or SPECIAL
\* with a non-integer argument component, the buffer's size is not -1, and the
\* offset's range has vmin < 0 or vmax >= size; otherwise it accepts.
C5_ValidateIndex ==
  (Evaluated /\ IndexChecked(cur)) =>
    LET reject == /\ ~IGNORE_OOB
                  /\ Len(cur.src) = 2
                  /\ cur.dtype.k # "image"
                  /\ ~Unbounded(cur.src[2])
                  /\ cur.src[1].dtype.size # -1
                  /\ (cur.src[2].vmin < 0 \/ cur.src[2].vmax >= cur.src[1].dtype.size)
    IN  spec_ret["spec"] = IF reject THEN "F" ELSE "T"

\* C5 witness: an INDEX whose offset reaches exactly the buffer's size is rejected
C5_Witness ==
  /\ Evaluated /\ IndexChecked(cur)
  /\ cur.src[2].vmin >= 0 /\ cur.src[2].vmax = cur.src[1].dtype.size
  /\ spec_ret["spec"] = "F"

\* the shapes of the shaped non-SINK nodes the SINK depends on
ClosureShapes(sink) == {x.shape : x \in {y \in toposort(sink) : y.op # "SINK" /\ y.shape # NoShape}}

\* the sizes found at dimension d, over the shapes that have one
SizesAt(sink, d) == {sh[d] : sh \in {t \in ClosureShapes(sink) : Len(t) >= d}}

\* every direct source reports the same total element count
SameCount(sink) ==
  \A j, k \in 1..Len(sink.src) : sink.src[j].src[2].arg.n = sink.src[k].src[2].arg.n

\* a SINK all of whose direct sources are STOREs
StoreSink(u) == u.op = "SINK" /\ \A k \in 1..Len(u.src) : u.src[k].op = "STORE"

SharedDims(sink) ==
  {d \in 1..2 : ClosureShapes(sink) # {} /\ \A sh \in ClosureShapes(sink) : Len(sh) >= d}

AssignActive == specs \cap {"assign_spec", "tensor_uop_spec", "sched_spec"} # {}

\* a KERNEL whose program does not end with COPY, BUFFER_VIEW or a SINK of STOREs
BadKernel(u) ==
  /\ u.op = "KERNEL"
  /\ LET ast == u.arg.ast[1] IN
     \/ ast.op \notin {"COPY", "BUFFER_VIEW", "SINK"}
     \/ ast.op = "SINK" /\ \E k \in 1..Len(ast.src) : ast.src[k].op # "STORE"

\* C7 as stated: with the assign rules active such a KERNEL ends verification with
\* the assertion failure, whatever its own sources are.
C7_Original ==
  (Evaluated /\ AssignActive /\ BadKernel(cur)) => outcome = "AssertionError"

\* C7 as amended: with the assign rules active such a KERNEL, all of whose sources
\* are BUFFER, BUFFER_VIEW or ASSIGN nodes, ends verification with the assertion
\* failure, whatever the other active rule sets return on it; on a KERNEL with any
\* other source no assertion fires.
C7_AssertsOnMatchedKernel ==
  (Evaluated /\ AssignActive /\ BadKernel(cur)) =>
    (outcome = "AssertionError" <=>
       \A k \in 1..Len(cur.src) : cur.src[k].op \in {"BUFFER", "BUFFER_VIEW", "ASSIGN"})

\* C7 witness: the assertion fires on a KERNEL that sched_spec is active on and that
\* shape_spec, active too, rejects for its sources' shapes
C7_Witness ==
  /\ outcome = "AssertionError" /\ BadKernel(cur)
  /\ {"sched_spec", "shape_spec"} \subseteq specs
  /\ Len(cur.src) = 2 /\ cur.src[1].shape # cur.src[2].shape
  /\ rewrite(shape_spec(cur)) = "F"

SchedOps == {"UNIQUE", "DEVICE", "BUFFER", "BUFFER_VIEW", "ASSIGN", "KERNEL"}

BufferPattern(u) ==
  \/ u.op = "DEVICE" /\ u.dtype = void /\ u.src = <<>>
  \/ u.op = "BUFFER" /\ Len(u.src) = 2 /\ u.src[1].op = "DEVICE" /\ u.src[2].op = "UNIQUE"
  \/ u.op = "BUFFER_VIEW" /\ Len(u.src) = 1 /\ u.src[1].op = "BUFFER"

\* the argument is of the kind the node's rule asks for
BufferArgKind(u) ==
  \/ u.op = "DEVICE" /\ u.arg.t = "str"
  \/ u.op = "BUFFER" /\ u.arg.t \in {"int", "bool"}
  \/ u.op = "BUFFER_VIEW" /\ u.arg.t = "tuple" /\ Len(u.arg.e) = 2
       /\ \A k \in 1..2 : u.arg.e[k] \in {"int", "bool", "UOp"}

\* the sources section 4.1 asks for (a BUFFER's two in either order)
BufferSources(u) ==
  \/ u.op = "DEVICE"
  \/ u.op = "BUFFER" /\ Len(u.src) = 2 /\ {u.src[1].op, u.src[2].op} = {"DEVICE", "UNIQUE"}
  \/ u.op = "BUFFER_VIEW" /\ Len(u.src) = 1 /\ u.src[1].op = "BUFFER"

\* C9 as stated: buffer_spec gives a definite reject to every DEVICE, BUFFER or
\* BUFFER_VIEW that deviates in its sources or in the kind of its argument.
C9_Original ==
  (/\ Evaluated /\ "buffer_spec" \in specs
   /\ cur.op \in {"DEVICE", "BUFFER", "BUFFER_VIEW"}
   /\ ~(BufferSources(cur) /\ BufferArgKind(cur)))
  => spec_ret["buffer_spec"] = "F"

\* C9 as amended: buffer_spec gives a definite reject to every DEVICE, BUFFER or
\* BUFFER_VIEW that has the sources (for a DEVICE, also the void dtype) of its rule's
\* pattern and deviates in the kind of its argument, and accepts it whatever its
\* dtype when the argument is of the right kind; on one that does not have the
\* pattern's structure it abstains.
C9_RejectOnArgAbstainOnPattern ==
  (Evaluated /\ "buffer_spec" \in specs /\ cur.op \in {"DEVICE", "BUFFER", "BUFFER_VIEW"}) =>
    /\ (BufferPattern(cur) /\ ~BufferArgKind(cur)) => spec_ret["buffer_spec"] = "F"
    /\ (BufferPattern(cur) /\ BufferArgKind(cur)) => spec_ret["buffer_spec"] = "T"
    /\ ~BufferPattern(cur) => spec_ret["buffer_spec"] = "N"

\* C9 witness: a BUFFER_VIEW of a BUFFER whose argument is a 1-tuple is rejected
C9_Witness ==
  /\ Evaluated /\ "buffer_spec" \in specs
  /\ cur.op = "BUFFER_VIEW" /\ BufferPattern(cur)
  /\ cur.arg.t = "tuple" /\ Len(cur.arg.e) = 1
  /\ spec_ret["buffer_spec"] = "F"

\* an integer dtype: dtypes.int32, uint32, int64
IntegerDtype(d) == d \in {int32, uint32, int64}

\* the base dtype: the pointee of a pointer, the dtype itself otherwise
BaseOf(d) == IF d.k \in {"ptr", "image"} THEN DT(d.base) ELSE d

\* C10: under spec an IDIV or MOD of a non-integer dtype is rejected whatever its
\* sources are; of an integer dtype it is accepted if and only if every source's base
\* dtype is the result's base dtype, and rejected otherwise.
C10_IdivMod ==
  (Evaluated /\ cur.op \in {"IDIV", "MOD"}) =>
    IF IntegerDtype(cur.dtype)
      THEN spec_ret["spec"] =
             IF \A k \in 1..Len(cur.src) : BaseOf(cur.src[k].dtype) = BaseOf(cur.dtype)
               THEN "T" ELSE "F"
      ELSE spec_ret["spec"] = "F"

\* C10 witness: a float MOD whose two sources are float too is rejected
C10_Witness ==
  /\ Evaluated /\ cur.op = "MOD" /\ cur.dtype = float32
  /\ Len(cur.src) = 2 /\ cur.src[1].dtype = float32 /\ cur.src[2].dtype = float32
  /\ spec_ret["spec"] = "F"

====
